---- MODULE Spec2Model ----
(***************************************************************************)
(* Model of Marlin/createTemperatureLookup.py: the Thermistor class and    *)
(* the table generator main().                                             *)
(*                                                                         *)
(* Python floats are modelled as binary floating point numbers with a     *)
(* MantBits-bit mantissa and an unbounded exponent: a record              *)
(* [s, m, e] stands for s * m * 2^e, with s in {-1,0,1} and               *)
(* 2^(MantBits-1) <= m < 2^MantBits (m = 0 for zero).  exp and log are    *)
(* computed by range reduction and series, as a libm does.                *)
(***************************************************************************)
EXTENDS Integers, Sequences, FiniteSets, TLC

\* Width of the modelled mantissa (products of two mantissas stay below 2^31).
MantBits == 14

\* None where a string is expected (an exception name, --name).
None == "None"

\* An optional value is <<>> (None) or <<v>>.
Absent == <<>>

Some(v) == <<v>>

----------------------------------------------------------------------------
(* Floating point arithmetic                                               *)

Abs(x) == IF x < 0 THEN -x ELSE x

Sign(x) == IF x < 0 THEN -1 ELSE IF x = 0 THEN 0 ELSE 1

Pow2(n) == 2 ^ n

RECURSIVE BitLen(_)
BitLen(m) == IF m = 0 THEN 0 ELSE 1 + BitLen(m \div 2)

Zero == [s |-> 0, m |-> 0, e |-> 0]

\* s * m * 2^e rounded to MantBits bits (round half up on the magnitude).
Norm(s, m, e) ==
    IF m = 0 \/ s = 0 THEN Zero
    ELSE LET b == BitLen(m) IN
         IF b > MantBits
         THEN LET d == Pow2(b - MantBits)
                  q == (m + d \div 2) \div d
              IN  IF q = Pow2(MantBits)
                  THEN [s |-> s, m |-> Pow2(MantBits - 1), e |-> e + (b - MantBits) + 1]
                  ELSE [s |-> s, m |-> q, e |-> e + (b - MantBits)]
         ELSE [s |-> s, m |-> m * Pow2(MantBits - b), e |-> e - (MantBits - b)]

\* float(n) for an integer n.
FromInt(n) == Norm(Sign(n), Abs(n), 0)

FNeg(a) == [a EXCEPT !.s = -a.s]

FMul(a, b) == IF a.s = 0 \/ b.s = 0 THEN Zero ELSE Norm(a.s * b.s, a.m * b.m, a.e + b.e)

\* a / b for b # 0 (the callers raise ZeroDivisionError for b = 0).
FDiv(a, b) ==
    IF a.s = 0 THEN Zero
    ELSE Norm(a.s * b.s, (a.m * Pow2(MantBits)) \div b.m, a.e - b.e - MantBits)

FAdd(a, b) ==
    IF a.s = 0 THEN b
    ELSE IF b.s = 0 THEN a
    ELSE LET hi == IF a.e >= b.e THEN a ELSE b
             lo == IF a.e >= b.e THEN b ELSE a
             d  == hi.e - lo.e
         IN  IF d > MantBits THEN hi
             ELSE LET sum == hi.s * hi.m * Pow2(d) + lo.s * lo.m
                  IN  Norm(Sign(sum), Abs(sum), lo.e)

FSub(a, b) == FAdd(a, FNeg(b))

\* a > b
FGt(a, b) == FSub(a, b).s = 1

\* The literal 273.15.
K273 == FDiv(FromInt(27315), FromInt(100))

\* A command line value given in hundredths, as float() parses it.
FromCenti(c) == FDiv(FromInt(c), FromInt(100))

\* floor(a * 2^MantBits): a as a fixed point number, for |a| < 2^12.
ToFixed(a) ==
    IF a.s = 0 THEN 0
    ELSE LET sh == a.e + MantBits
         IN  IF sh >= 0 THEN a.s * a.m * Pow2(sh)
             ELSE IF a.s = 1 THEN a.m \div Pow2(-sh)
             ELSE -((a.m + Pow2(-sh) - 1) \div Pow2(-sh))

One == Pow2(MantBits)

\* ln 2 and 1/ln 2 in fixed point.
Ln2Fixed == (45426 * Pow2(MantBits)) \div 65536

Log2eFloat == Norm(1, 47274, -15)

\* a * b in fixed point.
XMul(a, b) == (a * b) \div One

\* exp(g) in fixed point for 0 <= g < ln 2, by its Taylor series.
ExpSeries(g) ==
    LET t2 == XMul(g, g) \div 2
        t3 == XMul(t2, g) \div 3
        t4 == XMul(t3, g) \div 4
        t5 == XMul(t4, g) \div 5
        t6 == XMul(t5, g) \div 6
    IN  One + g + t2 + t3 + t4 + t5 + t6

\* math.exp raises OverflowError when the result exceeds the largest double,
\* that is for x > 709.78.
ExpOverflows(x) == FGt(x, FromCenti(70978))

\* math.exp(x) for an x that does not overflow; underflows to 0.0.
Exp(x) ==
    LET y == FMul(x, Log2eFloat)
    IN  IF y.s = -1 /\ FGt(FromInt(-1075), y) THEN Zero
        ELSE LET Y == ToFixed(y)
                 n == Y \div One
                 f == Y % One
             IN  Norm(1, ExpSeries(XMul(f, Ln2Fixed)), n - MantBits)

\* ln(u) in fixed point for 1 <= u < 2 given as mantissa m, by the atanh series.
LogSeries(m) ==
    LET h  == Pow2(MantBits - 1)
        z  == ((m - h) * One) \div (m + h)
        z2 == XMul(z, z)
        z3 == XMul(z, z2)
        z5 == XMul(z3, z2)
        z7 == XMul(z5, z2)
        z9 == XMul(z7, z2)
    IN  2 * (z + z3 \div 3 + z5 \div 5 + z7 \div 7 + z9 \div 9)

\* math.log(x) for x > 0 (the callers raise ValueError for x <= 0).
Log(x) ==
    LET L == (x.e + MantBits - 1) * Ln2Fixed + LogSeries(x.m)
    IN  Norm(Sign(L), Abs(L), -MantBits)

\* PyInt with the fraction dropped downward: floor(x).
PyIntFloor(x) ==
    IF x.s = 0 THEN 0
    ELSE IF x.e >= 0 THEN x.s * x.m * Pow2(x.e)
    ELSE IF -x.e >= MantBits THEN (IF x.s = 1 THEN 0 ELSE -1)
    ELSE IF x.s = 1 THEN x.m \div Pow2(-x.e)
    ELSE -((x.m + Pow2(-x.e) - 1) \div Pow2(-x.e))

\* int(x): truncation toward zero.
PyInt(x) ==
    IF x.s = 0 THEN 0
    ELSE IF x.e >= 0 THEN x.s * x.m * Pow2(x.e)
    ELSE IF -x.e >= MantBits THEN 0
    ELSE x.s * (x.m \div Pow2(-x.e))

----------------------------------------------------------------------------
(* class Thermistor                                                        *)

\* r1 > 0, where r1 may be None: Python 2 orders None below every number.
R1Positive(r1) == r1 # Absent /\ r1[1].s = 1

\* ThermistorInitError with the parameters validated first.
ThermistorInitErrorValidating(r0, t0, beta, r1, r2) ==
    LET t0k == FAdd(t0, K273)
    IN  IF r0.s # 1 \/ beta.s # 1 \/ r2.s # 1 \/ (r1 # Absent /\ r1[1].s = -1)
        THEN "ValueError"
        ELSE IF t0k.s = 0 THEN "ZeroDivisionError"
        ELSE IF ExpOverflows(FDiv(FNeg(beta), t0k)) THEN "OverflowError"
        ELSE IF R1Positive(r1) /\ FAdd(r1[1], r2).s = 0 THEN "ZeroDivisionError"
        ELSE None

\* The exception Thermistor.__init__ raises, or None.
ThermistorInitError(r0, t0, beta, r1, r2) ==
    LET t0k == FAdd(t0, K273)
    IN  IF t0k.s = 0 THEN "ZeroDivisionError"
        ELSE IF ExpOverflows(FDiv(FNeg(beta), t0k)) THEN "OverflowError"
        ELSE IF R1Positive(r1) /\ FAdd(r1[1], r2).s = 0 THEN "ZeroDivisionError"
        ELSE None

\* The object Thermistor.__init__ builds when it raises nothing.
ThermistorInit(r0, t0, beta, r1, r2) ==
    LET t0k == FAdd(t0, K273)
        vcc == FromInt(5)
    IN  [r0   |-> r0,
         t0   |-> t0k,
         beta |-> beta,
         vadc |-> FromInt(5),
         vcc  |-> vcc,
         k    |-> FMul(r0, Exp(FDiv(FNeg(beta), t0k))),
         vs   |-> IF R1Positive(r1) THEN FDiv(FMul(r1[1], vcc), FAdd(r1[1], r2)) ELSE vcc,
         rs   |-> IF R1Positive(r1) THEN FDiv(FMul(r1[1], r2), FAdd(r1[1], r2)) ELSE r2]

\* v in Thermistor.temp: the voltage of an ADC reading.
AdcVoltage(self, adc) == FDiv(FMul(FromInt(adc), self.vadc), FromInt(1024))

\* TempError with a logarithm that accepts a negative argument.
TempErrorLogOfMagnitude(self, adc) ==
    LET v == AdcVoltage(self, adc)
        d == FSub(self.vs, v)
    IN  IF d.s = 0 THEN "ZeroDivisionError"
        ELSE LET r == FDiv(FMul(self.rs, v), d)
             IN  IF self.k.s = 0 THEN "ZeroDivisionError"
                 ELSE LET x == FDiv(r, self.k)
                      IN  IF x.s = 0 THEN "ValueError"
                          ELSE IF Log(x).s = 0 THEN "ZeroDivisionError"
                          ELSE None

\* The exception Thermistor.temp raises, or None.
TempError(self, adc) ==
    LET v == AdcVoltage(self, adc)
        d == FSub(self.vs, v)
    IN  IF d.s = 0 THEN "ZeroDivisionError"
        ELSE LET r == FDiv(FMul(self.rs, v), d)
             IN  IF self.k.s = 0 THEN "ZeroDivisionError"
                 ELSE LET x == FDiv(r, self.k)
                      IN  IF x.s # 1 THEN "ValueError"
                          ELSE IF Log(x).s = 0 THEN "ZeroDivisionError"
                          ELSE None

\* The value Thermistor.temp returns when it raises nothing.
Temp(self, adc) ==
    LET v == AdcVoltage(self, adc)
        r == FDiv(FMul(self.rs, v), FSub(self.vs, v))
    IN  FSub(FDiv(self.beta, Log(FDiv(r, self.k))), K273)

----------------------------------------------------------------------------
(* main()                                                                  *)

VARIABLES
    args,       \* the parsed command line (argparse.Namespace)
    pc,         \* the statement main() is at, "done", or "error" after a raise
    max_adc,    \* main's local max_adc (0 while unbound)
    t,          \* main's Thermistor object, optional
    increment,  \* main's local increment (0 while unbound)
    adcs,       \* main's list adcs
    n,          \* how many entries of adcs the for loop has consumed
    out,        \* the lines printed so far
    err,        \* the exception that ended the run, or None
    calls       \* direct use of the class: the temp() calls made and their outcomes

vars == <<args, pc, max_adc, t, increment, adcs, n, out, err, calls>>

\* Largest --num-temps and largest small --max-adc explored.
MaxNumTemps == 21

MaxSmallAdc == 8

\* Thermistor parameter sets given on the command line: r0, t0 (hundredths
\* of a degree), beta, r1, r2.
ThermistorArgs ==
    { <<100000,   2500,  4092, Absent,    4700>>,
      <<100000,   2500,  4092, Absent,     100>>,
      <<100000,   2500,  4092, Absent, 1000000>>,
      <<100000,   2500,  4092, Some(4700), 4700>>,
      <<     0,   2500,  4092, Absent,    4700>>,
      <<100000, -27315,  4092, Absent,    4700>>,
      <<100000,   2500, -4092, Absent,    4700>>,
      <<-100000,  2500,  4092, Absent,   -4700>> }

NumTempsValues == (-1) .. MaxNumTemps

MaxAdcValues == ((-2) .. MaxSmallAdc) \cup {1023, 2047}

NameValues == {None, "temptable"}

\* type=float of argparse, applied to an option that may be absent.
ArgFloat(x) == IF x = Absent THEN Absent ELSE Some(FromInt(x[1]))

\* a / b on Python 2 ints, b # 0: floor division.
PyIntDiv(a, b) == IF b < 0 THEN (-a) \div (-b) ELSE a \div b

\* RangeLen with the last partial step dropped.
RangeLenFloor(start, stop, step) ==
    IF step > 0
    THEN IF stop > start THEN (stop - start) \div step ELSE 0
    ELSE IF start > stop THEN (start - stop) \div (-step) ELSE 0

\* RangeLen with the stop value included.
RangeLenInclusive(start, stop, step) ==
    IF step > 0
    THEN IF stop >= start THEN (stop - start + step) \div step ELSE 0
    ELSE IF start >= stop THEN (start - stop - step) \div (-step) ELSE 0

\* len(range(start, stop, step)), step # 0.
RangeLen(start, stop, step) ==
    IF step > 0
    THEN IF stop > start THEN (stop - start + step - 1) \div step ELSE 0
    ELSE IF start > stop THEN (start - stop - step - 1) \div (-step) ELSE 0

\* range(start, stop, step), step # 0.
Range(start, stop, step) ==
    [i \in 1 .. RangeLen(start, stop, step) |-> start + (i - 1) * step]

Line(kind) == [kind |-> kind, adc |-> 0, temp |-> 0, sep |-> ""]

IsRow(l) == l.kind = "row"

\* The table rows printed so far.
Rows == SelectSeq(out, IsRow)

Init ==
    /\ \E th \in ThermistorArgs, nt \in NumTempsValues, ma \in MaxAdcValues,
          nm \in NameValues :
          args = [r0 |-> th[1], t0 |-> th[2], beta |-> th[3], r1 |-> th[4],
                  r2 |-> th[5], num_temps |-> nt, max_adc |-> ma, name |-> nm]
    /\ pc = "max_adc"
    /\ max_adc = 0
    /\ t = Absent
    /\ increment = 0
    /\ adcs = <<>>
    /\ n = 0
    /\ out = <<>>
    /\ err = None
    /\ calls = <<>>

Raise(e) == pc' = "error" /\ err' = e

\* max_adc = args.max_adc; with --r1 given, the names r1 and r2 are unbound.
SetMaxAdc ==
    /\ pc = "max_adc"
    /\ IF args.r1 # Absent
       THEN Raise("NameError") /\ max_adc' = args.max_adc
       ELSE pc' = "thermistor" /\ max_adc' = args.max_adc /\ err' = err
    /\ UNCHANGED <<args, t, increment, adcs, n, out, calls>>

\* t = Thermistor(args.r0, args.t0, args.beta, args.r1, args.r2)
NewThermistor ==
    /\ pc = "thermistor"
    /\ LET r0   == FromInt(args.r0)
           t0   == FromCenti(args.t0)
           beta == FromInt(args.beta)
           r1   == ArgFloat(args.r1)
           r2   == FromInt(args.r2)
           e    == ThermistorInitError(r0, t0, beta, r1, r2)
       IN  IF e # None
           THEN Raise(e) /\ t' = t
           ELSE pc' = "increment" /\ err' = err
                /\ t' = Some(ThermistorInit(r0, t0, beta, r1, r2))
    /\ UNCHANGED <<args, max_adc, increment, adcs, n, out, calls>>

\* increment = int(max_adc/(args.num_temps-1))
SetIncrement ==
    /\ pc = "increment"
    /\ IF args.num_temps - 1 = 0
       THEN Raise("ZeroDivisionError") /\ increment' = increment
       ELSE pc' = "adcs" /\ err' = err
            /\ increment' = PyIntDiv(max_adc, args.num_temps - 1)
    /\ UNCHANGED <<args, max_adc, t, adcs, n, out, calls>>

\* adcs = range(1, max_adc, increment)
SetAdcs ==
    /\ pc = "adcs"
    /\ IF increment = 0
       THEN Raise("ValueError") /\ adcs' = adcs
       ELSE pc' = "header" /\ err' = err /\ adcs' = Range(1, max_adc, increment)
    /\ UNCHANGED <<args, max_adc, t, increment, n, out, calls>>

\* The three comment lines and, with --name, the array declaration.
PrintHeader ==
    /\ pc = "header"
    /\ out' = out \o <<Line("comment"), Line("comment"), Line("comment")>>
                  \o (IF args.name # None THEN <<Line("decl")>> ELSE <<>>)
    /\ pc' = "rows"
    /\ UNCHANGED <<args, max_adc, t, increment, adcs, n, err, calls>>

\* One iteration of  for n,adc in enumerate(adcs): print ... int(t.temp(adc)) ...
PrintRow ==
    /\ pc = "rows"
    /\ n < Len(adcs)
    /\ LET adc == adcs[n + 1]
           e   == TempError(t[1], adc)
       IN  IF e # None
           THEN Raise(e) /\ UNCHANGED <<n, out>>
           ELSE /\ out' = Append(out, [kind |-> "row", adc |-> adc,
                                      temp |-> PyInt(Temp(t[1], adc)),
                                      sep  |-> IF n = Len(adcs) THEN "" ELSE ","])
                /\ n' = n + 1
                /\ UNCHANGED <<pc, err>>
    /\ UNCHANGED <<args, max_adc, t, increment, adcs, calls>>

\* The loop is exhausted; with --name, the closing "};".
PrintFooter ==
    /\ pc = "rows"
    /\ n = Len(adcs)
    /\ out' = out \o (IF args.name # None THEN <<Line("end")>> ELSE <<>>)
    /\ pc' = "done"
    /\ UNCHANGED <<args, max_adc, t, increment, adcs, n, err, calls>>

Next ==
    \/ SetMaxAdc
    \/ NewThermistor
    \/ SetIncrement
    \/ SetAdcs
    \/ PrintHeader
    \/ PrintRow
    \/ PrintFooter

Spec == Init /\ [][Next]_vars

----------------------------------------------------------------------------
(* The class used directly: Thermistor(...) and then temp(adc) calls       *)

\* Most temp() calls made on one object.
MaxCalls == 2

R0Values == {-100000, 0, 100000}

T0Values == {2500, -27000, -27315}

BetaValues == {-4092, 0, 4092}

R1Values == {Absent, Some(-4700), Some(0), Some(4700)}

R2Values == {-4700, 0, 4700}

AdcValues == {0, 1, 512, 1023, 1024, 1025}

InitClass ==
    /\ \E r0 \in R0Values, t0 \in T0Values, beta \in BetaValues,
          r1 \in R1Values, r2 \in R2Values :
          args = [r0 |-> r0, t0 |-> t0, beta |-> beta, r1 |-> r1, r2 |-> r2,
                  num_temps |-> 0, max_adc |-> 0, name |-> None]
    /\ pc = "class_new"
    /\ max_adc = 0
    /\ t = Absent
    /\ increment = 0
    /\ adcs = <<>>
    /\ n = 0
    /\ out = <<>>
    /\ err = None
    /\ calls = <<>>

\* Thermistor(r0, t0, beta, r1, r2) on float arguments.
ClassNew ==
    /\ pc = "class_new"
    /\ LET r0   == FromInt(args.r0)
           t0   == FromCenti(args.t0)
           beta == FromInt(args.beta)
           r1   == ArgFloat(args.r1)
           r2   == FromInt(args.r2)
           e    == ThermistorInitError(r0, t0, beta, r1, r2)
       IN  IF e # None
           THEN pc' = "class_raised" /\ err' = e /\ t' = t
           ELSE pc' = "class_ready" /\ err' = err
                /\ t' = Some(ThermistorInit(r0, t0, beta, r1, r2))
    /\ UNCHANGED <<args, max_adc, increment, adcs, n, out, calls>>

\* t.temp(adc): the caller catches what it raises.
ClassTemp ==
    /\ pc = "class_ready"
    /\ Len(calls) < MaxCalls
    /\ \E adc \in AdcValues :
          LET e == TempError(t[1], adc)
          IN  calls' = Append(calls,
                  [adc |-> adc, err |-> e,
                   val |-> IF e = None THEN Some(Temp(t[1], adc)) ELSE Absent])
    /\ UNCHANGED <<args, pc, max_adc, t, increment, adcs, n, out, err>>

NextClass == ClassNew \/ ClassTemp

SpecClass == InitClass /\ [][NextClass]_vars

----------------------------------------------------------------------------
(* Properties                                                              *)

\* C1: a run that ends in an error has emitted no table row (a run emits
\* the row of every generated code or no row at all).
C1_NoPartialTable == pc = "error" => Rows = <<>>

C2_Scenario == args.max_adc = 1023 /\ args.num_temps = 20 /\ args.r1 = Absent

\* C2 as amended: with maxAdc = 1023 and numPoints = 20 the increment is 53
\* and the generated codes are 1, 54, ..., 1008: exactly 20 codes, and a
\* completed run emits 20 rows.
C2_TableSize ==
    C2_Scenario /\ pc \in {"header", "rows", "done"} =>
        /\ increment = 53
        /\ adcs = [i \in 1 .. 20 |-> 1 + 53 * (i - 1)]
        /\ \A i \in 1 .. Len(adcs) : adcs[i] < 1023
        /\ (pc = "done" => Len(Rows) = 20)

C2_Witness == C2_Scenario /\ pc = "done" /\ Len(Rows) = 20 /\ Rows[20].adc = 1008

\* C2 as stated: with maxAdc = 1023 and numPoints = 20 the increment is 53
\* and exactly 19 codes are generated.
C2_NineteenPoints ==
    C2_Scenario /\ pc \in {"header", "rows", "done"} =>
        increment = 53 /\ Len(adcs) = 19

\* C3: a successful run with numPoints >= 2 emits at most numPoints rows.
C3_LengthBound ==
    pc = "done" /\ args.num_temps >= 2 => Len(Rows) <= args.num_temps

\* C4: a run with numPoints < 2 or with an increment below 1 never completes
\* successfully.
C4_SamplingPrecondition ==
    pc = "done" => args.num_temps >= 2 /\ increment >= 1

\* C5: with a low-side resistor r1 supplied, max_adc becomes
\* floor(1023 * r1 / (r1 + r2)) and the run goes on to generate the table.
C5_LowSideCeiling ==
    args.r1 # Absent /\ pc # "max_adc" =>
        /\ max_adc = (1023 * args.r1[1]) \div (args.r1[1] + args.r2)
        /\ pc # "error"

C6_Invalid ==
    \/ args.r0 <= 0
    \/ args.beta <= 0
    \/ args.r2 <= 0
    \/ (args.r1 # Absent /\ args.r1[1] < 0)

\* The arithmetic of the constructor is undefined: t0 + 273.15 = 0,
\* -beta / (t0 + 273.15) > 709.78, or r1 > 0 with r1 + r2 = 0.
C6_ArithmeticRaises ==
    LET den == args.t0 + 27315
    IN  \/ den = 0
        \/ (den > 0 /\ (-args.beta) * 10000 > 70978 * den)
        \/ (den < 0 /\ (-args.beta) * 10000 < 70978 * den)
        \/ (args.r1 # Absent /\ args.r1[1] > 0 /\ args.r1[1] + args.r2 = 0)

C7_AdcSequence ==
    max_adc >= 2 /\ increment >= 1 =>
        /\ \A i \in 1 .. Len(Rows) :
              /\ Rows[i].adc = 1 + (i - 1) * increment
              /\ Rows[i].adc < max_adc
              /\ (i > 1 => /\ Rows[i].adc - Rows[i - 1].adc = increment
                           /\ Rows[i].adc > Rows[i - 1].adc)
        /\ (pc = "done" =>
               Len(Rows) = Cardinality({c \in 1 .. (max_adc - 1) :
                                           (c - 1) % increment = 0}))

C7_Witness ==
    /\ pc = "done"
    /\ max_adc >= 2
    /\ increment >= 2
    /\ Len(Rows) >= 3
    /\ (max_adc - 1) % increment = 0

\* z is x with its fraction dropped (rounded toward zero).
IsTruncation(z, x) ==
    IF x.s = 0 THEN z = 0
    ELSE IF x.e >= 0 THEN z = x.s * x.m * Pow2(x.e)
    ELSE IF -x.e >= MantBits THEN z = 0
    ELSE /\ Sign(z) \in {0, x.s}
         /\ Abs(z) * Pow2(-x.e) <= x.m
         /\ x.m < (Abs(z) + 1) * Pow2(-x.e)

\* z is an integer nearest to x: |x - z| <= 1/2.
IsNearest(z, x) ==
    IF x.s = 0 THEN z = 0
    ELSE IF x.e >= 0 THEN z = x.s * x.m * Pow2(x.e)
    ELSE IF -x.e > MantBits THEN z = 0
    ELSE 2 * Abs(x.s * x.m - z * Pow2(-x.e)) <= Pow2(-x.e)

\* C8 as amended: the temperature stored in a row is temp(adc) truncated
\* toward zero (24.7 is stored as 24 and -3.6 as -3).
C8_RowTruncated ==
    \A i \in 1 .. Len(Rows) :
        IsTruncation(Rows[i].temp, Temp(t[1], Rows[i].adc))

\* A row of a negative temperature whose stored value is not the nearest integer.
C8_Witness ==
    \E i \in 1 .. Len(Rows) :
        /\ Rows[i].temp < 0
        /\ ~IsNearest(Rows[i].temp, Temp(t[1], Rows[i].adc))

\* C8 as stated: the temperature stored in a row is temp(adc) rounded to the
\* nearest integer.
C8_RowRounded ==
    \A i \in 1 .. Len(Rows) :
        IsNearest(Rows[i].temp, Temp(t[1], Rows[i].adc))

C9_Valid ==
    /\ args.r0 > 0
    /\ args.beta > 0
    /\ args.r2 > 0
    /\ (args.r1 = Absent \/ args.r1[1] >= 0)

\* adc * vadc / 1024 = vs, with vs = vcc * r1 / (r1 + r2) for r1 > 0, else vcc.
C9_AtSaturation(adc) ==
    IF args.r1 # Absent /\ args.r1[1] > 0
    THEN adc * (args.r1[1] + args.r2) = 1024 * args.r1[1]
    ELSE adc = 1024

\* adc * vadc / 1024 > vs.
C9_AboveSaturation(adc) ==
    IF args.r1 # Absent /\ args.r1[1] > 0
    THEN adc * (args.r1[1] + args.r2) > 1024 * args.r1[1]
    ELSE adc > 1024

\* C9: on a model with valid parameters, temp() at an ADC code whose voltage
\* is at or above vs raises an error and returns no temperature.
C9_SaturationFails ==
    C9_Valid =>
        \A i \in 1 .. Len(calls) :
            C9_AtSaturation(calls[i].adc) \/ C9_AboveSaturation(calls[i].adc) =>
                calls[i].err # None /\ calls[i].val = Absent

\* Both cases on one object with a low-side resistor: voltage = vs, voltage > vs.
C9_Witness ==
    /\ C9_Valid
    /\ t # Absent
    /\ args.r1 # Absent /\ args.r1[1] > 0
    /\ Len(calls) >= 2
    /\ C9_AtSaturation(calls[1].adc) /\ calls[1].err = "ZeroDivisionError"
    /\ C9_AboveSaturation(calls[2].adc) /\ calls[2].err = "ValueError"

\* C10: for r0 > 0, beta > 0, r2 > 0 the temperatures of a completed table,
\* in order of increasing ADC code, never rise after falling nor fall after
\* rising.
C10_Monotonic ==
    pc = "done" /\ args.r0 > 0 /\ args.beta > 0 /\ args.r2 > 0 =>
        \/ \A i \in 2 .. Len(Rows) : Rows[i].temp <= Rows[i - 1].temp
        \/ \A i \in 2 .. Len(Rows) : Rows[i].temp >= Rows[i - 1].temp

====
